---- MODULE Spec2Model ----
(***************************************************************************)
(* Bento layout validator (bentoValidator.ts) as a state machine.          *)
(*                                                                         *)
(* One call of validateBentoLayout is modelled phase by phase: the set-up  *)
(* and count check, the all-zero early return, one step per iteration of   *)
(* the positions loop, the tally, one step per iteration of the typeLimits *)
(* loop, and the return.  The caller's data (config, linkedEntriesInput)   *)
(* are state variables of their own, apart from the call's locals.         *)
(*                                                                         *)
(* Error messages are the strings the template literals of the source      *)
(* build.                                                                  *)
(***************************************************************************)
EXTENDS Integers, Sequences, FiniteSets, TLC

VARIABLES
    config,              \* the ValidationConfig the caller passes
    linkedEntriesInput,  \* the caller's items: null, undefined or an array
    pc,                  \* position of the call
    errors,              \* local: const errors = []
    linkedEntries,       \* local: linkedEntriesInput || []
    positionKeys,        \* keys the positions for-in loop still has to visit
    contentTypeCounts,   \* local: tally per content type id
    typeKeys,            \* keys the typeLimits for-in loop still has to visit
    result,              \* the ValidationResult of the last return
    argsAtCall,          \* the arguments as they were when the call started
    returned,            \* log of completed calls: arguments and result
    \* the Field component
    sdkField,            \* sdk.field: its type and the type of its items
    fieldValue,          \* the value of the field: null, undefined or a list of links
    phase,               \* "rendered" before the effect has run, then "mounted"
    fieldErrors,         \* the React state errors, which the component displays
    runs,                \* runValidation calls that are awaiting their fetches
    runCount,            \* number of runValidation calls so far
    changes,             \* number of value-change notifications so far
    shownRun,            \* the runValidation call that made the last setErrors
    lastRunFetches,      \* getEntry calls issued by the latest runValidation call
    lastValidated        \* the latest validateBentoLayout call of the component

validatorVars == <<linkedEntriesInput, pc, errors, linkedEntries, positionKeys,
                   contentTypeCounts, typeKeys, result, argsAtCall, returned>>

fieldVars == <<sdkField, fieldValue, phase, fieldErrors, runs, runCount,
               changes, shownRun, lastRunFetches, lastValidated>>

vars == <<config, validatorVars, fieldVars>>

----------------------------------------------------------------------------
(* Bounds of the input universe *)

MaxItems == 2
MaxIndex == 1
MaxTotal == 2
MaxLimit == 1
MaxCalls == 3

----------------------------------------------------------------------------
(* Linked entries.  An item is described by how many links of the chain   *)
(* entry, entry.sys, entry.sys.contentType, entry.sys.contentType.sys are  *)
(* truthy, and by the value of sys.contentType.sys.id.                     *)

TypeIds == {"typeA", "typeB"}

NullItem == [links |-> 0, id |-> ""]

MalformedEntry == [links |-> 2, id |-> ""]

createMockEntry(contentTypeId) == [links |-> 4, id |-> contentTypeId]

Items == {NullItem, MalformedEntry} \cup {createMockEntry(t) : t \in TypeIds}

ItemSeqs == UNION {[1..n -> Items] : n \in 0..MaxItems}

Inputs ==
    {[kind |-> "null", elems |-> <<>>], [kind |-> "undefined", elems |-> <<>>]}
        \cup {[kind |-> "array", elems |-> s] : s \in ItemSeqs}

----------------------------------------------------------------------------
(* Configurations.  An object literal is the sequence of its properties in *)
(* declared order; its keys are distinct.                                  *)

SlotNames == {"pos1", "1"}

AllowedTypesOf(key) == IF key = "pos1" THEN <<"typeA">> ELSE <<"typeB", "typeC">>

DistinctSeqs(S) ==
    {s \in UNION {[1..n -> S] : n \in 0..Cardinality(S)} :
        \A i, j \in DOMAIN s : i # j => s[i] # s[j]}

PositionsChoices ==
    UNION {{[i \in 1..Len(ks) |->
                [key |-> ks[i], index |-> ix[i], allowedTypes |-> AllowedTypesOf(ks[i])]] :
            ix \in [1..Len(ks) -> 0..MaxIndex]} : ks \in DistinctSeqs(SlotNames)}

TypeLimitsChoices ==
    {[present |-> FALSE, entries |-> <<>>]} \cup
    UNION {{[present |-> TRUE,
             entries |-> [i \in 1..Len(ks) |-> [key |-> ks[i], limit |-> lm[i]]]] :
            lm \in [1..Len(ks) -> 0..MaxLimit]} : ks \in DistinctSeqs(TypeIds)}

ValidationConfig ==
    [positions : PositionsChoices,
     limits : [totalEntries : 0..MaxTotal, typeLimits : TypeLimitsChoices]]

----------------------------------------------------------------------------
(* Helpers of the source *)

\* Faulty variant of getContentTypeIdFromLink: entry.sys.contentType.sys.id is
\* read without the guards, which throws a TypeError on a broken chain
getContentTypeIdFromLink_Unguarded(entry) ==
    IF entry.links = 4 /\ entry.id # ""
    THEN [null |-> FALSE, id |-> entry.id, threw |-> FALSE]
    ELSE [null |-> TRUE, id |-> "", threw |-> entry.links < 4]

\* The && chain reads each property only after the link before it was found
\* truthy, so no read dereferences null or undefined: threw is FALSE.  The
\* result is the id when the whole chain and the id are truthy, else null.
getContentTypeIdFromLink(entry) ==
    IF entry.links = 4 /\ entry.id # ""
    THEN [null |-> FALSE, id |-> entry.id, threw |-> FALSE]
    ELSE [null |-> TRUE, id |-> "", threw |-> FALSE]

\* linkedEntriesInput || []
\* Faulty variant of NormalizeEntries: [linkedEntriesInput] for a non-array
NormalizeEntries_WrapsNull(input) ==
    IF input.kind = "array" THEN input.elems ELSE <<NullItem>>

NormalizeEntries(input) == IF input.kind = "array" THEN input.elems ELSE <<>>

\* linkedEntries[index]: undefined when out of range; undefined and a null
\* element are both falsy
EntryAt(entries, index) ==
    IF index >= 0 /\ index < Len(entries) THEN entries[index + 1] ELSE NullItem

\* Faulty variant of Join: join(',')
RECURSIVE Join_NoSpace(_)
Join_NoSpace(s) ==
    IF s = <<>> THEN ""
    ELSE IF Len(s) = 1 THEN s[1]
    ELSE s[1] \o "," \o Join_NoSpace(Tail(s))

\* Array.prototype.join(', ')
RECURSIVE Join(_)
Join(s) ==
    IF s = <<>> THEN ""
    ELSE IF Len(s) = 1 THEN s[1]
    ELSE s[1] \o ", " \o Join(Tail(s))

\* Array.prototype.includes
Includes(s, x) == \E i \in DOMAIN s : s[i] = x

\* Canonical array-index property names of the key universe
ArrayIndexOf(key) ==
    CASE key = "0" -> 0
      [] key = "1" -> 1
      [] key = "2" -> 2
      [] OTHER -> -1

RECURSIVE SortedIndexKeys(_)
SortedIndexKeys(ks) ==
    IF ks = {} THEN <<>>
    ELSE LET m == CHOOSE k \in ks : \A o \in ks : ArrayIndexOf(k) <= ArrayIndexOf(o)
         IN <<m>> \o SortedIndexKeys(ks \ {m})

\* for (const key in obj): integer-like keys in ascending numeric order first,
\* then the other string keys in the order they were declared
ForInKeys(props) ==
    LET keys == [i \in DOMAIN props |-> props[i].key]
        intKeys == {keys[i] : i \in {j \in DOMAIN keys : ArrayIndexOf(keys[j]) >= 0}}
    IN SortedIndexKeys(intKeys) \o SelectSeq(keys, LAMBDA k : ArrayIndexOf(k) < 0)

\* obj[key]
Prop(props, key) == props[CHOOSE i \in DOMAIN props : props[i].key = key]

----------------------------------------------------------------------------
(* Messages *)

CountMismatchMessage(expected, found) ==
    "Expected " \o ToString(expected) \o " entries, but found " \o ToString(found) \o "."

MissingEntryMessage(index, key) ==
    "Missing entry at position " \o ToString(index) \o " (" \o key \o ")."

UnknownTypeMessage(index, key) ==
    "Could not determine content type for entry at position "
        \o ToString(index) \o " (" \o key \o ")."

InvalidTypeMessage(typeId, index, key, allowedTypes) ==
    "Invalid content type '" \o typeId \o "' at position " \o ToString(index)
        \o " (" \o key \o "). Allowed types: " \o Join(allowedTypes) \o "."

TooManyMessage(typeKey, limit, count) ==
    "Too many entries of type '" \o typeKey \o "'. Expected maximum "
        \o ToString(limit) \o ", but found " \o ToString(count) \o "."

----------------------------------------------------------------------------
(* The three checks, as the source computes them *)

\* Faulty variant of CountCheckErrors: reports too few entries only (< for !==)
CountCheckErrors_TooFewOnly(cfg, entries) ==
    IF Len(entries) < cfg.limits.totalEntries
    THEN <<[message |-> CountMismatchMessage(cfg.limits.totalEntries, Len(entries))]>>
    ELSE <<>>

\* 1. total number of entries
CountCheckErrors(cfg, entries) ==
    IF Len(entries) # cfg.limits.totalEntries
    THEN <<[message |-> CountMismatchMessage(cfg.limits.totalEntries, Len(entries))]>>
    ELSE <<>>

\* Faulty variant of IsAllZero: the early exit is missing
IsAllZero_NoEarlyExit(cfg, entries) == FALSE

\* the guard of the early exit
IsAllZero(cfg, entries) == cfg.limits.totalEntries = 0 /\ Len(entries) = 0

\* Faulty variant of PositionErrors: a missing entry is skipped without an error
PositionErrors_SilentMissing(positionKey, positionRule, entries) ==
    LET entryAtIndex == EntryAt(entries, positionRule.index)
        entryContentTypeId == getContentTypeIdFromLink(entryAtIndex)
    IN IF entryAtIndex.links = 0
       THEN <<>>
       ELSE IF entryContentTypeId.null
       THEN <<[message |-> UnknownTypeMessage(positionRule.index, positionKey)]>>
       ELSE IF ~Includes(positionRule.allowedTypes, entryContentTypeId.id)
       THEN <<[message |-> InvalidTypeMessage(entryContentTypeId.id, positionRule.index,
                                              positionKey, positionRule.allowedTypes)]>>
       ELSE <<>>

\* Faulty variant of PositionErrors: allowedTypes is not consulted
PositionErrors_AnyTypeAllowed(positionKey, positionRule, entries) ==
    LET entryAtIndex == EntryAt(entries, positionRule.index)
        entryContentTypeId == getContentTypeIdFromLink(entryAtIndex)
    IN IF entryAtIndex.links = 0
       THEN <<[message |-> MissingEntryMessage(positionRule.index, positionKey)]>>
       ELSE IF entryContentTypeId.null
       THEN <<[message |-> UnknownTypeMessage(positionRule.index, positionKey)]>>
       ELSE <<>>

\* Faulty variant of PositionErrors: an entry without a content type is
\* reported as missing
PositionErrors_MissingWhenUnresolved(positionKey, positionRule, entries) ==
    LET entryAtIndex == EntryAt(entries, positionRule.index)
        entryContentTypeId == getContentTypeIdFromLink(entryAtIndex)
    IN IF entryAtIndex.links = 0 \/ entryContentTypeId.null
       THEN <<[message |-> MissingEntryMessage(positionRule.index, positionKey)]>>
       ELSE IF ~Includes(positionRule.allowedTypes, entryContentTypeId.id)
       THEN <<[message |-> InvalidTypeMessage(entryContentTypeId.id, positionRule.index,
                                              positionKey, positionRule.allowedTypes)]>>
       ELSE <<>>

\* 2. one iteration of the positions loop
PositionErrors(positionKey, positionRule, entries) ==
    LET entryAtIndex == EntryAt(entries, positionRule.index)
        entryContentTypeId == getContentTypeIdFromLink(entryAtIndex)
    IN IF entryAtIndex.links = 0
       THEN <<[message |-> MissingEntryMessage(positionRule.index, positionKey)]>>
       ELSE IF entryContentTypeId.null
       THEN <<[message |-> UnknownTypeMessage(positionRule.index, positionKey)]>>
       ELSE IF ~Includes(positionRule.allowedTypes, entryContentTypeId.id)
       THEN <<[message |-> InvalidTypeMessage(entryContentTypeId.id, positionRule.index,
                                              positionKey, positionRule.allowedTypes)]>>
       ELSE <<>>

\* a TypeError raised while the entry of a position is examined (line 53 is
\* reached only for a truthy entry)
PositionThrows(positionRule, entries) ==
    LET entryAtIndex == EntryAt(entries, positionRule.index)
    IN entryAtIndex.links # 0 /\ getContentTypeIdFromLink(entryAtIndex).threw

\* a TypeError raised inside the forEach of the tally (line 73, every entry)
TallyThrows(entries) ==
    \E i \in DOMAIN entries : getContentTypeIdFromLink(entries[i]).threw

\* 3a. the tally: an own property per resolved id, holding its count
TallyTypes(entries) ==
    LET ids == [i \in DOMAIN entries |-> getContentTypeIdFromLink(entries[i])]
        seen == {ids[i].id : i \in {j \in DOMAIN ids : ~ids[j].null}}
    IN [t \in seen |-> Cardinality({i \in DOMAIN ids : ~ids[i].null /\ ids[i].id = t})]

\* Faulty variant of TypeLimitErrors: count >= limit for count > limit
TypeLimitErrors_AtLimit(typeKey, limit, counts) ==
    LET count == IF typeKey \in DOMAIN counts THEN counts[typeKey] ELSE 0
    IN IF count >= limit
       THEN <<[message |-> TooManyMessage(typeKey, limit, count)]>>
       ELSE <<>>

\* 3b. one iteration of the typeLimits loop; count is contentTypeCounts[typeKey] || 0
TypeLimitErrors(typeKey, limit, counts) ==
    LET count == IF typeKey \in DOMAIN counts THEN counts[typeKey] ELSE 0
    IN IF count > limit
       THEN <<[message |-> TooManyMessage(typeKey, limit, count)]>>
       ELSE <<>>

\* Faulty variant of MakeResult: isValid is not derived from errors
MakeResult_AlwaysValid(errs) == [isValid |-> TRUE, errors |-> errs]

\* { isValid: errors.length === 0, errors }
MakeResult(errs) == [isValid |-> (Len(errs) = 0), errors |-> errs]

RECURSIVE PositionsLoop(_, _, _)
PositionsLoop(keys, cfg, entries) ==
    IF keys = <<>> THEN <<>>
    ELSE PositionErrors(Head(keys), Prop(cfg.positions, Head(keys)), entries)
            \o PositionsLoop(Tail(keys), cfg, entries)

RECURSIVE TypeLimitsLoop(_, _, _)
TypeLimitsLoop(keys, cfg, counts) ==
    IF keys = <<>> THEN <<>>
    ELSE TypeLimitErrors(Head(keys), Prop(cfg.limits.typeLimits.entries, Head(keys)).limit,
                         counts)
            \o TypeLimitsLoop(Tail(keys), cfg, counts)

\* The whole function, for callers that use it as one synchronous call
validateBentoLayout(cfg, input) ==
    LET entries == NormalizeEntries(input)
        counted == CountCheckErrors(cfg, entries)
    IN IF IsAllZero(cfg, entries)
       THEN MakeResult(counted)
       ELSE MakeResult(
                counted
                \o PositionsLoop(ForInKeys(cfg.positions), cfg, entries)
                \o (IF cfg.limits.typeLimits.present
                    THEN TypeLimitsLoop(ForInKeys(cfg.limits.typeLimits.entries), cfg,
                                        TallyTypes(entries))
                    ELSE <<>>))

----------------------------------------------------------------------------
(* State machine *)

NoResult == [isValid |-> FALSE, errors |-> <<>>]

NoCounts == [t \in {} |-> 0]

\* no validateBentoLayout call of the component yet
NoValidation == [run |-> 0, items |-> <<>>, result |-> NoResult]

\* the validator on its own: no Field component is rendered
NoField ==
    /\ sdkField = [type |-> "none", itemsType |-> "", linkType |-> ""]
    /\ fieldValue = [kind |-> "null", links |-> <<>>]
    /\ phase = "none"
    /\ fieldErrors = <<>>
    /\ runs = {}
    /\ runCount = 0
    /\ changes = 0
    /\ shownRun = 0
    /\ lastRunFetches = 0
    /\ lastValidated = NoValidation

Init ==
    /\ config \in ValidationConfig
    /\ linkedEntriesInput \in Inputs
    /\ pc = "idle"
    /\ errors = <<>>
    /\ linkedEntries = <<>>
    /\ positionKeys = <<>>
    /\ contentTypeCounts = NoCounts
    /\ typeKeys = <<>>
    /\ result = NoResult
    /\ argsAtCall = [config |-> config, input |-> linkedEntriesInput]
    /\ returned = <<>>
    /\ NoField

\* Faulty variant of Call: errors lives outside the function and is not reset
Call_KeepsErrors ==
    /\ UNCHANGED fieldVars
    /\ pc = "idle"
    /\ linkedEntries' = NormalizeEntries(linkedEntriesInput)
    /\ errors' = errors \o CountCheckErrors(config, NormalizeEntries(linkedEntriesInput))
    /\ argsAtCall' = [config |-> config, input |-> linkedEntriesInput]
    /\ pc' = "counted"
    /\ UNCHANGED <<config, linkedEntriesInput, positionKeys, contentTypeCounts,
                   typeKeys, result, returned>>

\* lines 18-30: fresh errors, normalised entries, count check
Call ==
    /\ UNCHANGED fieldVars
    /\ pc = "idle"
    /\ linkedEntries' = NormalizeEntries(linkedEntriesInput)
    /\ errors' = CountCheckErrors(config, NormalizeEntries(linkedEntriesInput))
    /\ argsAtCall' = [config |-> config, input |-> linkedEntriesInput]
    /\ pc' = "counted"
    /\ UNCHANGED <<config, linkedEntriesInput, positionKeys, contentTypeCounts,
                   typeKeys, result, returned>>

\* lines 34-36: the all-zero early return
EarlyReturn ==
    /\ UNCHANGED fieldVars
    /\ pc = "counted"
    /\ IsAllZero(config, linkedEntries)
    /\ result' = MakeResult(errors)
    /\ returned' = Append(returned, [config |-> argsAtCall.config,
                                     input |-> argsAtCall.input,
                                     result |-> MakeResult(errors)])
    /\ pc' = "done"
    /\ UNCHANGED <<config, linkedEntriesInput, errors, linkedEntries, positionKeys,
                   contentTypeCounts, typeKeys, argsAtCall>>

\* Faulty variant of BeginPositions: a count mismatch skips the positions loop
BeginPositions_SkipsOnMismatch ==
    /\ UNCHANGED fieldVars
    /\ pc = "counted"
    /\ ~IsAllZero(config, linkedEntries)
    /\ positionKeys' = IF errors = <<>> THEN ForInKeys(config.positions) ELSE <<>>
    /\ pc' = "positions"
    /\ UNCHANGED <<config, linkedEntriesInput, errors, linkedEntries,
                   contentTypeCounts, typeKeys, result, argsAtCall, returned>>

\* line 42: the positions loop starts
BeginPositions ==
    /\ UNCHANGED fieldVars
    /\ pc = "counted"
    /\ ~IsAllZero(config, linkedEntries)
    /\ positionKeys' = ForInKeys(config.positions)
    /\ pc' = "positions"
    /\ UNCHANGED <<config, linkedEntriesInput, errors, linkedEntries,
                   contentTypeCounts, typeKeys, result, argsAtCall, returned>>

\* lines 42-67: one iteration of the positions loop
CheckPosition ==
    /\ UNCHANGED fieldVars
    /\ pc = "positions"
    /\ positionKeys # <<>>
    /\ LET positionKey == Head(positionKeys)
           positionRule == Prop(config.positions, positionKey)
       IN IF PositionThrows(positionRule, linkedEntries)
          THEN pc' = "threw" /\ UNCHANGED <<errors, positionKeys>>
          ELSE /\ errors' = errors \o PositionErrors(positionKey, positionRule,
                                                      linkedEntries)
               /\ positionKeys' = Tail(positionKeys)
               /\ pc' = pc
    /\ UNCHANGED <<config, linkedEntriesInput, linkedEntries, contentTypeCounts,
                   typeKeys, result, argsAtCall, returned>>

\* Faulty variant of BeginTypeLimits: the tally consumes the array with shift()
BeginTypeLimits_Drains ==
    /\ UNCHANGED fieldVars
    /\ pc = "positions"
    /\ positionKeys = <<>>
    /\ config.limits.typeLimits.present
    /\ contentTypeCounts' = TallyTypes(linkedEntries)
    /\ typeKeys' = ForInKeys(config.limits.typeLimits.entries)
    /\ pc' = "typeLimits"
    /\ linkedEntries' = <<>>
    /\ linkedEntriesInput' = IF linkedEntriesInput.kind = "array"
                             THEN [kind |-> "array", elems |-> <<>>]
                             ELSE linkedEntriesInput
    /\ UNCHANGED <<config, errors, positionKeys, result, argsAtCall, returned>>

\* lines 70-77: typeLimits is present: tally, then the typeLimits loop starts
BeginTypeLimits ==
    /\ UNCHANGED fieldVars
    /\ pc = "positions"
    /\ positionKeys = <<>>
    /\ config.limits.typeLimits.present
    /\ IF TallyThrows(linkedEntries)
       THEN pc' = "threw" /\ UNCHANGED <<contentTypeCounts, typeKeys>>
       ELSE /\ contentTypeCounts' = TallyTypes(linkedEntries)
            /\ typeKeys' = ForInKeys(config.limits.typeLimits.entries)
            /\ pc' = "typeLimits"
    /\ UNCHANGED <<config, linkedEntriesInput, errors, linkedEntries, positionKeys,
                   result, argsAtCall, returned>>

\* Faulty variant of CheckTypeLimit: errors.unshift instead of errors.push
CheckTypeLimit_Unshift ==
    /\ UNCHANGED fieldVars
    /\ pc = "typeLimits"
    /\ typeKeys # <<>>
    /\ LET typeKey == Head(typeKeys)
           limit == Prop(config.limits.typeLimits.entries, typeKey).limit
       IN errors' = TypeLimitErrors(typeKey, limit, contentTypeCounts) \o errors
    /\ typeKeys' = Tail(typeKeys)
    /\ UNCHANGED <<config, linkedEntriesInput, pc, linkedEntries, positionKeys,
                   contentTypeCounts, result, argsAtCall, returned>>

\* lines 79-87: one iteration of the typeLimits loop
CheckTypeLimit ==
    /\ UNCHANGED fieldVars
    /\ pc = "typeLimits"
    /\ typeKeys # <<>>
    /\ LET typeKey == Head(typeKeys)
           limit == Prop(config.limits.typeLimits.entries, typeKey).limit
       IN errors' = errors \o TypeLimitErrors(typeKey, limit, contentTypeCounts)
    /\ typeKeys' = Tail(typeKeys)
    /\ UNCHANGED <<config, linkedEntriesInput, pc, linkedEntries, positionKeys,
                   contentTypeCounts, result, argsAtCall, returned>>

\* line 90: the normal return
Return ==
    /\ UNCHANGED fieldVars
    /\ \/ pc = "typeLimits" /\ typeKeys = <<>>
       \/ pc = "positions" /\ positionKeys = <<>> /\ ~config.limits.typeLimits.present
    /\ result' = MakeResult(errors)
    /\ returned' = Append(returned, [config |-> argsAtCall.config,
                                     input |-> argsAtCall.input,
                                     result |-> MakeResult(errors)])
    /\ pc' = "done"
    /\ UNCHANGED <<config, linkedEntriesInput, errors, linkedEntries, positionKeys,
                   contentTypeCounts, typeKeys, argsAtCall>>

Next ==
    \/ Call
    \/ EarlyReturn
    \/ BeginPositions
    \/ CheckPosition
    \/ BeginTypeLimits
    \/ CheckTypeLimit
    \/ Return

Spec == Init /\ [][Next]_vars

----------------------------------------------------------------------------
(* Repeated calls: a caller that calls again after a return, with          *)
(* arguments of its choice.  The arguments are those of the unit tests     *)
(* (bentoValidator.spec.ts).                                               *)

baseConfig ==
    [positions |-> <<[key |-> "pos1", index |-> 0, allowedTypes |-> <<"typeA">>],
                     [key |-> "pos2", index |-> 1, allowedTypes |-> <<"typeB", "typeC">>]>>,
     limits |-> [totalEntries |-> 2,
                 typeLimits |-> [present |-> TRUE,
                                 entries |-> <<[key |-> "typeA", limit |-> 1],
                                               [key |-> "typeB", limit |-> 1],
                                               [key |-> "typeC", limit |-> 1]>>]]]

zeroConfig ==
    [baseConfig EXCEPT !.limits = [totalEntries |-> 0,
                                   typeLimits |-> [present |-> FALSE, entries |-> <<>>]]]

TestInputs ==
    {[kind |-> "null", elems |-> <<>>],
     [kind |-> "array", elems |-> <<>>],
     [kind |-> "array", elems |-> <<createMockEntry("typeA")>>],
     [kind |-> "array", elems |-> <<createMockEntry("typeA"), createMockEntry("typeB")>>],
     [kind |-> "array", elems |-> <<createMockEntry("typeA"), createMockEntry("typeA")>>],
     [kind |-> "array", elems |-> <<createMockEntry("typeA"), MalformedEntry>>]}

TestArgs == [config : {baseConfig, zeroConfig}, input : TestInputs]

InitCalls ==
    /\ \E a \in TestArgs : config = a.config /\ linkedEntriesInput = a.input
    /\ pc = "idle"
    /\ errors = <<>>
    /\ linkedEntries = <<>>
    /\ positionKeys = <<>>
    /\ contentTypeCounts = NoCounts
    /\ typeKeys = <<>>
    /\ result = NoResult
    /\ argsAtCall = [config |-> config, input |-> linkedEntriesInput]
    /\ returned = <<>>
    /\ NoField

\* the caller prepares the next call; the locals of the finished call are
\* garbage that the next call does not read
CallAgain ==
    /\ UNCHANGED fieldVars
    /\ pc = "done"
    /\ Len(returned) < MaxCalls
    /\ \E a \in TestArgs : config' = a.config /\ linkedEntriesInput' = a.input
    /\ pc' = "idle"
    /\ UNCHANGED <<errors, linkedEntries, positionKeys, contentTypeCounts, typeKeys,
                   result, argsAtCall, returned>>

NextCalls == Next \/ CallAgain

SpecCalls == InitCalls /\ [][NextCalls]_vars

----------------------------------------------------------------------------
(* The Field component: it validates the value of the field when it is     *)
(* mounted and again on every value change.  A run on a non-empty value    *)
(* fetches every linked entry and validates when all of them have arrived. *)

MaxChanges == 1

\* the bento-1-2 config that the component tests install in
\* window.__TEST_VALIDATION_CONFIG__
bento12Config ==
    [positions |->
        <<[key |-> "leftColumnFullHeightCard", index |-> 0,
           allowedTypes |-> <<"CardTypeA">>],
          [key |-> "rightColumnTopCard", index |-> 1,
           allowedTypes |-> <<"CardTypeB", "CardTypeC">>],
          [key |-> "rightColumnBottomCard", index |-> 2,
           allowedTypes |-> <<"CardTypeB">>]>>,
     limits |-> [totalEntries |-> 3,
                 typeLimits |-> [present |-> TRUE,
                                 entries |-> <<[key |-> "CardTypeA", limit |-> 1],
                                               [key |-> "CardTypeB", limit |-> 2],
                                               [key |-> "CardTypeC", limit |-> 1]>>]]]

DEFAULT_CONFIG ==
    [positions |->
        <<[key |-> "leftColumnFullHeightCard", index |-> 0,
           allowedTypes |-> <<"cardTypeA">>],
          [key |-> "rightColumnTopCard", index |-> 1,
           allowedTypes |-> <<"cardTypeB", "cardTypeC">>],
          [key |-> "rightColumnBottomCard", index |-> 2,
           allowedTypes |-> <<"cardTypeB">>]>>,
     limits |-> [totalEntries |-> 3,
                 typeLimits |-> [present |-> TRUE,
                                 entries |-> <<[key |-> "cardTypeA", limit |-> 1],
                                               [key |-> "cardTypeB", limit |-> 2],
                                               [key |-> "cardTypeC", limit |-> 1]>>]]]

\* getConfig() is the test override when there is one, else DEFAULT_CONFIG
ConfigChoices == {bento12Config, DEFAULT_CONFIG}

\* the entries of the space, by id
createMockContentfulEntry ==
    [id \in {"entryA1", "entryA2", "entryB1", "entryB2"} |->
        IF id \in {"entryA1", "entryA2"}
        THEN createMockEntry("CardTypeA")
        ELSE createMockEntry("CardTypeB")]

\* sdk.space.getEntry(id), when it resolves
getEntry(id) == createMockContentfulEntry[id]

\* sdk.field of the tests: type, items.type and items.linkType ("" for none)
FieldDefs ==
    {[type |-> "Array", itemsType |-> "Link", linkType |-> "Entry"],
     [type |-> "Array", itemsType |-> "Link", linkType |-> "Asset"],
     [type |-> "Symbol", itemsType |-> "", linkType |-> ""]}

\* the values of the field: null, undefined or a list of links, by entry id
FieldValues ==
    {[kind |-> "null", links |-> <<>>],
     [kind |-> "undefined", links |-> <<>>],
     [kind |-> "array", links |-> <<>>],
     [kind |-> "array", links |-> <<"entryA1">>],
     [kind |-> "array", links |-> <<"entryA1", "entryB1">>],
     [kind |-> "array", links |-> <<"entryA1", "entryB1", "entryB2">>],
     [kind |-> "array", links |-> <<"entryA1", "entryA2", "entryB1">>]}

\* the places of a link in a value
LinkPlaces == UNION {DOMAIN value.links : value \in FieldValues}

\* the runValidation calls: one at mount and one per value change
RunIds == 1..(MaxChanges + 1)

\* the run in flight with this id
RunOf(id) == CHOOSE run \in runs : run.id = id

\* Faulty variant of IsEntryLinksField: items.linkType is not looked at
IsEntryLinksField_AnyLink(f) ==
    ~(f.type # "Array" \/ f.itemsType # "Link")

\* line 75, negated: the field is an Array of Links to Entries
IsEntryLinksField(f) ==
    ~(f.type # "Array" \/ f.itemsType # "Link" \/ f.linkType # "Entry")

NotReferenceFieldMessage ==
    "This validator is intended for multiple entry reference fields."

FetchErrorMessage == "Error fetching linked entry details for validation."

\* a place of the Promise.all results that has not been fulfilled yet
Pending == [links |-> 0 - 1, id |-> "pending"]

\* line 82: currentValue || []
LinkedEntryIds(currentValue) ==
    IF currentValue.kind = "array" THEN currentValue.links ELSE <<>>

\* Faulty variant of runValidation: an empty value returns without validating
runValidation_SkipsEmpty(currentValue) ==
    LET run == runCount + 1
        linkedEntryIds == LinkedEntryIds(currentValue)
    IN /\ runCount' = run
       /\ IF ~IsEntryLinksField(sdkField)
          THEN /\ fieldErrors' = <<[message |-> NotReferenceFieldMessage]>>
               /\ shownRun' = run
               /\ lastRunFetches' = 0
               /\ UNCHANGED <<runs, lastValidated>>
          ELSE IF Len(linkedEntryIds) = 0
          THEN /\ lastRunFetches' = 0
               /\ UNCHANGED <<fieldErrors, shownRun, lastValidated, runs>>
          ELSE /\ runs' = runs \cup
                          {[id |-> run, links |-> linkedEntryIds,
                            fetched |-> [i \in DOMAIN linkedEntryIds |-> Pending]]}
               /\ lastRunFetches' = Len(linkedEntryIds)
               /\ UNCHANGED <<fieldErrors, shownRun, lastValidated>>

\* lines 73-111: runValidation(currentValue) up to its first await
runValidation(currentValue) ==
    LET run == runCount + 1
        linkedEntryIds == LinkedEntryIds(currentValue)
    IN /\ runCount' = run
       /\ IF ~IsEntryLinksField(sdkField)
          THEN /\ fieldErrors' = <<[message |-> NotReferenceFieldMessage]>>
               /\ shownRun' = run
               /\ lastRunFetches' = 0
               /\ UNCHANGED <<runs, lastValidated>>
          ELSE IF Len(linkedEntryIds) = 0
          THEN LET validated == validateBentoLayout(config,
                                    [kind |-> "array", elems |-> <<>>])
               IN /\ fieldErrors' = validated.errors
                  /\ shownRun' = run
                  /\ lastRunFetches' = 0
                  /\ lastValidated' = [run |-> run, items |-> <<>>,
                                       result |-> validated]
                  /\ UNCHANGED runs
          ELSE /\ runs' = runs \cup
                          {[id |-> run, links |-> linkedEntryIds,
                            fetched |-> [i \in DOMAIN linkedEntryIds |-> Pending]]}
               /\ lastRunFetches' = Len(linkedEntryIds)
               /\ UNCHANGED <<fieldErrors, shownRun, lastValidated>>

InitField ==
    /\ config \in ConfigChoices
    /\ sdkField \in FieldDefs
    /\ fieldValue \in FieldValues
    /\ phase = "rendered"
    /\ fieldErrors = <<>>
    /\ runs = {}
    /\ runCount = 0
    /\ changes = 0
    /\ shownRun = 0
    /\ lastRunFetches = 0
    /\ lastValidated = NoValidation
    /\ linkedEntriesInput = [kind |-> "null", elems |-> <<>>]
    /\ pc = "idle"
    /\ errors = <<>>
    /\ linkedEntries = <<>>
    /\ positionKeys = <<>>
    /\ contentTypeCounts = NoCounts
    /\ typeKeys = <<>>
    /\ result = NoResult
    /\ argsAtCall = [config |-> config, input |-> linkedEntriesInput]
    /\ returned = <<>>

\* lines 122-129: the effect after the first render
Mount ==
    /\ phase = "rendered"
    /\ phase' = "mounted"
    /\ runValidation(fieldValue)
    /\ UNCHANGED <<config, validatorVars, sdkField, fieldValue, changes>>

\* Faulty variant of ValueChanged: the callback does not validate again
ValueChanged_NoRevalidation(value) ==
    /\ phase = "mounted"
    /\ changes < MaxChanges
    /\ changes' = changes + 1
    /\ fieldValue' = value
    /\ UNCHANGED <<config, validatorVars, sdkField, phase, fieldErrors, runs, runCount,
                   shownRun, lastRunFetches, lastValidated>>

\* lines 127-129: a value-change notification
ValueChanged(value) ==
    /\ phase = "mounted"
    /\ changes < MaxChanges
    /\ changes' = changes + 1
    /\ fieldValue' = value
    /\ runValidation(value)
    /\ UNCHANGED <<config, validatorVars, sdkField, phase>>

\* Faulty variant of FetchResolves: the results are pushed in arrival order
FetchResolves_ArrivalOrder(id, i) ==
    /\ \E run \in runs : run.id = id
    /\ i \in DOMAIN RunOf(id).links
    /\ RunOf(id).fetched[i] = Pending
    /\ LET run == RunOf(id)
           place == CHOOSE k \in DOMAIN run.fetched :
                        /\ run.fetched[k] = Pending
                        /\ \A j \in DOMAIN run.fetched : j < k => run.fetched[j] # Pending
           fetchedEntries == [run.fetched EXCEPT ![place] = getEntry(run.links[i])]
       IN IF \E k \in DOMAIN fetchedEntries : fetchedEntries[k] = Pending
          THEN /\ runs' = (runs \ {run}) \cup {[run EXCEPT !.fetched = fetchedEntries]}
               /\ UNCHANGED <<fieldErrors, shownRun, lastValidated>>
          ELSE LET validated == validateBentoLayout(config,
                                    [kind |-> "array", elems |-> fetchedEntries])
               IN /\ runs' = runs \ {run}
                  /\ fieldErrors' = validated.errors
                  /\ shownRun' = run.id
                  /\ lastValidated' = [run |-> run.id, items |-> fetchedEntries,
                                       result |-> validated]
    /\ UNCHANGED <<config, validatorVars, sdkField, fieldValue, phase, runCount,
                   changes, lastRunFetches>>

\* lines 102-114: getEntry of the link at place i resolves; when it is the
\* last one, Promise.all resolves and the run validates what was fetched
FetchResolves(id, i) ==
    /\ \E run \in runs : run.id = id
    /\ i \in DOMAIN RunOf(id).links
    /\ RunOf(id).fetched[i] = Pending
    /\ LET run == RunOf(id)
           fetchedEntries == [run.fetched EXCEPT ![i] = getEntry(run.links[i])]
       IN IF \E k \in DOMAIN fetchedEntries : fetchedEntries[k] = Pending
          THEN /\ runs' = (runs \ {run}) \cup {[run EXCEPT !.fetched = fetchedEntries]}
               /\ UNCHANGED <<fieldErrors, shownRun, lastValidated>>
          ELSE LET validated == validateBentoLayout(config,
                                    [kind |-> "array", elems |-> fetchedEntries])
               IN /\ runs' = runs \ {run}
                  /\ fieldErrors' = validated.errors
                  /\ shownRun' = run.id
                  /\ lastValidated' = [run |-> run.id, items |-> fetchedEntries,
                                       result |-> validated]
    /\ UNCHANGED <<config, validatorVars, sdkField, fieldValue, phase, runCount,
                   changes, lastRunFetches>>

\* Faulty variant of FetchFails: the catch block validates what has arrived
FetchFails_ValidatesPartial(id, i) ==
    /\ \E run \in runs : run.id = id
    /\ i \in DOMAIN RunOf(id).links
    /\ RunOf(id).fetched[i] = Pending
    /\ runs' = runs \ {RunOf(id)}
    /\ LET partial == SelectSeq(RunOf(id).fetched, LAMBDA entry : entry # Pending)
           validated == validateBentoLayout(config, [kind |-> "array", elems |-> partial])
       IN /\ fieldErrors' = validated.errors \o <<[message |-> FetchErrorMessage]>>
          /\ lastValidated' = [run |-> id, items |-> partial, result |-> validated]
    /\ shownRun' = id
    /\ UNCHANGED <<config, validatorVars, sdkField, fieldValue, phase, runCount,
                   changes, lastRunFetches>>

\* lines 116-119: getEntry of the link at place i rejects: Promise.all rejects
\* and the catch block runs; what the other fetches do later has no effect
FetchFails(id, i) ==
    /\ \E run \in runs : run.id = id
    /\ i \in DOMAIN RunOf(id).links
    /\ RunOf(id).fetched[i] = Pending
    /\ runs' = runs \ {RunOf(id)}
    /\ fieldErrors' = <<[message |-> FetchErrorMessage]>>
    /\ shownRun' = id
    /\ UNCHANGED <<config, validatorVars, sdkField, fieldValue, phase, runCount,
                   changes, lastRunFetches, lastValidated>>

\* lines 150-154: errors.length === 0 renders 'Bento layout validation passed.'
SuccessDisplayed == Len(fieldErrors) = 0

\* lines 143-149: errors.length > 0 renders the errors in a Textarea
ErrorsDisplayed == Len(fieldErrors) > 0

NextField ==
    \/ Mount
    \/ \E value \in FieldValues : ValueChanged(value)
    \/ \E id \in RunIds, i \in LinkPlaces : FetchResolves(id, i)
    \/ \E id \in RunIds, i \in LinkPlaces : FetchFails(id, i)

SpecField == InitField /\ [][NextField]_vars

\* a getEntry promise settles: it resolves or it rejects
FetchSettles ==
    \E id \in RunIds, i \in LinkPlaces : FetchFails(id, i) \/ FetchResolves(id, i)

\* while getEntry promises are pending, one of them settles
FetchesSettle == WF_vars(FetchSettles)

SpecFieldFair == SpecField /\ FetchesSettle

----------------------------------------------------------------------------
(* Vocabulary of the properties.  The messages are written out here from   *)
(* the wording of the properties, not taken from the definitions above.    *)

\* number of items of the call: null and undefined count as none
ItemCount == IF linkedEntriesInput.kind = "array" THEN Len(linkedEntriesInput.elems) ELSE 0

ExpectedTotal == config.limits.totalEntries

AllZeroCase == ExpectedTotal = 0 /\ ItemCount = 0

\* how many errors of the result carry this message
Occurrences(msg) ==
    Cardinality({i \in DOMAIN result.errors : result.errors[i].message = msg})

ExpectedEntriesText(n, m) ==
    "Expected " \o ToString(n) \o " entries, but found " \o ToString(m) \o "."

\* every 'Expected ... entries' message over the numbers of the universe
ExpectedEntriesTexts ==
    {ExpectedEntriesText(n, m) : n \in 0..(MaxTotal + 1), m \in 0..(MaxItems + 1)}

----------------------------------------------------------------------------
(* C1 *)

\* C1: whenever validateBentoLayout has returned, by the early return or by
\* the normal return, isValid is true exactly when errors is empty.
C1_IsValidIffNoErrors ==
    /\ pc = "done" => (result.isValid <=> result.errors = <<>>)
    /\ \A i \in DOMAIN returned :
          returned[i].result.isValid <=> returned[i].result.errors = <<>>

C1_Witness ==
    pc = "done" /\ ~AllZeroCase /\ result.errors # <<>> /\ ~result.isValid

----------------------------------------------------------------------------
(* C2 *)

\* C2: with totalEntries = N and M items (null and undefined count as 0):
\* if M # N the result holds 'Expected N entries, but found M.' exactly once,
\* no other 'Expected ... entries' message, and isValid is false; if M = N
\* it holds no 'Expected ... entries' message at all.
C2_CountMismatch ==
    pc = "done" =>
        /\ ItemCount # ExpectedTotal =>
              /\ Occurrences(ExpectedEntriesText(ExpectedTotal, ItemCount)) = 1
              /\ \A t \in ExpectedEntriesTexts \ {ExpectedEntriesText(ExpectedTotal, ItemCount)} :
                    Occurrences(t) = 0
              /\ ~result.isValid
        /\ ItemCount = ExpectedTotal =>
              \A t \in ExpectedEntriesTexts : Occurrences(t) = 0

C2_Witness ==
    /\ pc = "done"
    /\ ExpectedTotal = 1
    /\ ItemCount = 2
    /\ result.errors[1].message = "Expected 1 entries, but found 2."

----------------------------------------------------------------------------
(* C3 *)

\* C3: with totalEntries = 0 and items empty, null or undefined the result is
\* { isValid: true, errors: [] }, whatever positions and typeLimits declare.
C3_AllZeroIsValid ==
    (pc = "done" /\ ExpectedTotal = 0 /\ ItemCount = 0) =>
        result = [isValid |-> TRUE, errors |-> <<>>]

C3_Witness ==
    /\ pc = "done"
    /\ ExpectedTotal = 0
    /\ linkedEntriesInput.kind = "undefined"
    /\ Len(config.positions) = 2
    /\ config.limits.typeLimits.present
    /\ result = [isValid |-> TRUE, errors |-> <<>>]

----------------------------------------------------------------------------
(* Vocabulary of the per-slot and type-limit properties *)

\* the items of the call as a sequence
ItemsOfCall == IF linkedEntriesInput.kind = "array" THEN linkedEntriesInput.elems ELSE <<>>

Slots == {config.positions[i] : i \in DOMAIN config.positions}

\* the slot's index is within the items sequence
InBounds(slot) == slot.index >= 0 /\ slot.index < ItemCount

\* the item of an in-bounds slot
ItemOf(slot) == ItemsOfCall[slot.index + 1]

\* an item is present when it is not a null placeholder; it resolves to a
\* content type when sys.contentType.sys.id can be followed to a non-empty id
IsPresent(item) == item.links >= 1

Resolves(item) == item.links = 4 /\ item.id # ""

MissingText(i, slotName) ==
    "Missing entry at position " \o ToString(i) \o " (" \o slotName \o ")."

CouldNotText(i, slotName) ==
    "Could not determine content type for entry at position " \o ToString(i)
        \o " (" \o slotName \o ")."

\* allowedTypes joined by ", " in declared order, for the lists of the universe
JoinedText(allowedTypes) ==
    CASE allowedTypes = <<"typeA">> -> "typeA"
      [] allowedTypes = <<"typeB", "typeC">> -> "typeB, typeC"
      [] OTHER -> "?"

InvalidText(typeId, i, slotName, allowedTypes) ==
    "Invalid content type '" \o typeId \o "' at position " \o ToString(i) \o " ("
        \o slotName \o "). Allowed types: " \o JoinedText(allowedTypes) \o "."

AllTypeIds == TypeIds \cup {"typeC"}

\* every message that can be about this slot
SlotTexts(slot) ==
    {MissingText(slot.index, slot.key), CouldNotText(slot.index, slot.key)}
        \cup {InvalidText(t, slot.index, slot.key, slot.allowedTypes) : t \in AllTypeIds}

\* how many errors of the result are about this slot
SlotErrorCount(slot) ==
    Cardinality({i \in DOMAIN result.errors : result.errors[i].message \in SlotTexts(slot)})

\* number of items, at any index, whose resolved content type is typeId
TypeCount(typeId) ==
    Cardinality({i \in DOMAIN ItemsOfCall :
        Resolves(ItemsOfCall[i]) /\ ItemsOfCall[i].id = typeId})

TooManyText(typeId, limit, count) ==
    "Too many entries of type '" \o typeId \o "'. Expected maximum " \o ToString(limit)
        \o ", but found " \o ToString(count) \o "."

\* the 'Too many entries' messages over the types and numbers of the universe
TooManyTexts ==
    [t \in AllTypeIds |->
        [l \in 0..(MaxLimit + 1) |->
            [c \in 0..(MaxItems + 1) |-> TooManyText(t, l, c)]]]

\* the messages of the result
ResultMessages == {result.errors[i].message : i \in DOMAIN result.errors}

----------------------------------------------------------------------------
(* C4 *)

\* C4 as stated: for every config, every declared slot whose index is at or
\* beyond the end of items has its 'Missing entry at position i (slotName).'
\* error in the result.
C4_Original ==
    pc = "done" =>
        \A slot \in Slots :
            slot.index >= ItemCount =>
                Occurrences(MissingText(slot.index, slot.key)) >= 1

\* C4 amended: the same, for every call that does not take the all-zero early
\* return (totalEntries = 0 with no items).
C4_MissingEntryReported ==
    (pc = "done" /\ ~AllZeroCase) =>
        \A slot \in Slots :
            slot.index >= ItemCount =>
                Occurrences(MissingText(slot.index, slot.key)) >= 1

C4_Witness ==
    /\ pc = "done"
    /\ ItemCount = 1
    /\ ExpectedTotal = 1
    /\ \E slot \in Slots : slot.index = 1 /\ slot.key = "pos1"
    /\ Occurrences("Missing entry at position 1 (pos1).") = 1

----------------------------------------------------------------------------
(* C5 *)

\* C5: a slot whose item is present and resolves to a type T outside
\* allowedTypes has exactly one error in the result, the 'Invalid content
\* type' message with the allowed types joined by ", " in declared order; a
\* slot whose item resolves to a type in allowedTypes has no error.
C5_InvalidContentType ==
    pc = "done" =>
        \A slot \in Slots :
            (InBounds(slot) /\ IsPresent(ItemOf(slot)) /\ Resolves(ItemOf(slot))) =>
                IF \E k \in DOMAIN slot.allowedTypes : slot.allowedTypes[k] = ItemOf(slot).id
                THEN SlotErrorCount(slot) = 0
                ELSE /\ SlotErrorCount(slot) = 1
                     /\ Occurrences(InvalidText(ItemOf(slot).id, slot.index, slot.key,
                                                 slot.allowedTypes)) = 1

C5_Witness ==
    /\ pc = "done"
    /\ ItemCount = 2
    /\ ItemsOfCall[2] = createMockEntry("typeA")
    /\ Occurrences("Invalid content type 'typeA' at position 1 (1). Allowed types: typeB, typeC.") = 1
    /\ \E slot \in Slots :
          slot.key = "pos1" /\ slot.index = 1 /\ SlotErrorCount(slot) = 0

----------------------------------------------------------------------------
(* C6 *)

\* C6: outside the all-zero early return the result holds 'Too many entries
\* of type T. Expected maximum L, but found C.' exactly when typeLimits is
\* present, maps T to L, C is the number of items of resolved type T in the
\* whole sequence, and C > L.
C6_TooManyExactlyWhenOverLimit ==
    (pc = "done" /\ ~AllZeroCase) =>
        LET messages == ResultMessages
            typeLimits == config.limits.typeLimits
        IN \A t \in AllTypeIds :
            LET tally == TypeCount(t)
            IN \A l \in 0..(MaxLimit + 1), c \in 0..(MaxItems + 1) :
                (TooManyTexts[t][l][c] \in messages)
                <=> /\ typeLimits.present
                    /\ \E k \in DOMAIN typeLimits.entries :
                          typeLimits.entries[k].key = t /\ typeLimits.entries[k].limit = l
                    /\ c = tally
                    /\ c > l

C6_Witness ==
    /\ pc = "done"
    /\ Slots # {}
    /\ \A slot \in Slots : slot.index = 0
    /\ ItemsOfCall = <<createMockEntry("typeB"), createMockEntry("typeB")>>
    /\ Occurrences("Too many entries of type 'typeB'. Expected maximum 1, but found 2.") = 1

----------------------------------------------------------------------------
(* C7 *)

\* the declared slots whose item is present but has no resolvable type
UnresolvableSlots ==
    {slot \in Slots : InBounds(slot) /\ IsPresent(ItemOf(slot)) /\ ~Resolves(ItemOf(slot))}

\* C7: a call with a slot whose item is present but has no resolvable content
\* type raises no exception and is never stuck before its return, and in its
\* result that slot has exactly one error, the 'Could not determine content
\* type' message (so no 'Invalid content type' message).
C7_UnresolvableTypeDegrades ==
    UnresolvableSlots # {} =>
        /\ pc # "threw"
        /\ pc # "done" => ENABLED Next
        /\ pc = "done" =>
              \A slot \in UnresolvableSlots :
                  /\ SlotErrorCount(slot) = 1
                  /\ Occurrences(CouldNotText(slot.index, slot.key)) = 1

C7_Witness ==
    /\ pc = "done"
    /\ ItemsOfCall = <<createMockEntry("typeA"), MalformedEntry>>
    /\ \E slot \in UnresolvableSlots : slot.key = "1" /\ slot.index = 1
    /\ Occurrences("Could not determine content type for entry at position 1 (1).") = 1

----------------------------------------------------------------------------
(* C8 *)

\* the config of the call with totalEntries set to the number of items
ConfigWithMatchingTotal == [config EXCEPT !.limits.totalEntries = ItemCount]

\* C8: with a non-empty items sequence whose length differs from
\* totalEntries, the first error is the count mismatch and the errors after it
\* are exactly the errors of the same items under the config that differs
\* only in totalEntries = items.length.
C8_MismatchDoesNotShortCircuit ==
    (pc = "done" /\ ItemCount >= 1 /\ ItemCount # ExpectedTotal) =>
        /\ result.errors # <<>>
        /\ result.errors[1].message = ExpectedEntriesText(ExpectedTotal, ItemCount)
        /\ Tail(result.errors)
              = validateBentoLayout(ConfigWithMatchingTotal, linkedEntriesInput).errors

C8_Witness ==
    /\ pc = "done"
    /\ ItemCount = 1
    /\ ExpectedTotal = 2
    /\ Len(result.errors) = 4
    /\ Len(validateBentoLayout(ConfigWithMatchingTotal, linkedEntriesInput).errors) = 3

----------------------------------------------------------------------------
(* C9 *)

SameArguments(a, b) == a.config = b.config /\ a.input = b.input

\* C9: any two completed calls with identical arguments, whatever calls were
\* made before or between them, returned identical results.
C9_Deterministic ==
    \A i, j \in DOMAIN returned :
        SameArguments(returned[i], returned[j]) => returned[i].result = returned[j].result

C9_Witness ==
    /\ Len(returned) = 3
    /\ SameArguments(returned[1], returned[3])
    /\ ~SameArguments(returned[1], returned[2])
    /\ returned[1].result.errors # <<>>
    /\ returned[2].result.errors # <<>>
    /\ returned[3].result = returned[1].result

----------------------------------------------------------------------------
(* C10 *)

\* C10: from the start of a call on, through every step and after either
\* return, the config and the items are as they were when the call started.
C10_ArgumentsUnchanged ==
    pc # "idle" =>
        /\ config = argsAtCall.config
        /\ linkedEntriesInput = argsAtCall.input

C10_Witness ==
    /\ pc = "done"
    /\ ~result.isValid
    /\ config.limits.typeLimits.present
    /\ Len(config.positions) = 2
    /\ ItemCount = 2
    /\ linkedEntriesInput = argsAtCall.input
    /\ config = argsAtCall.config

----------------------------------------------------------------------------
(* C11 *)

\* the empty list, as an argument
EmptyList == [kind |-> "array", elems |-> <<>>]

\* C11: a call whose items are null, undefined or the empty list returns the
\* result that the same config gives with the empty list; when totalEntries
\* is N > 0 that result has 'Expected N entries, but found 0.' and a
\* 'Missing entry' error for every declared slot.
C11_AbsentLikeEmpty ==
    (pc = "done" /\ ItemCount = 0) =>
        /\ result = validateBentoLayout(config, EmptyList)
        /\ ExpectedTotal > 0 =>
              /\ ExpectedEntriesText(ExpectedTotal, 0) \in ResultMessages
              /\ \A slot \in Slots : MissingText(slot.index, slot.key) \in ResultMessages

C11_Witness ==
    /\ pc = "done"
    /\ linkedEntriesInput.kind = "undefined"
    /\ ExpectedTotal = 2
    /\ Cardinality(Slots) = 2
    /\ Len(result.errors) = 3

----------------------------------------------------------------------------
(* C17 *)

\* the messages of the per-slot checks, for the slots of the config
SlotMessages == UNION {SlotTexts(slot) : slot \in Slots}

\* the 'Too many entries' messages
TooManyMessages ==
    {TooManyTexts[t][l][c] : t \in AllTypeIds, l \in 0..(MaxLimit + 1), c \in 0..(MaxItems + 1)}

\* C17: in the returned errors the count-mismatch error, if there is one, is
\* the first; no per-slot error (Missing entry, Could not determine content
\* type, Invalid content type) comes after a 'Too many entries' error.
C17_OrderedByPhase ==
    pc = "done" =>
        \A i \in DOMAIN result.errors :
            /\ result.errors[i].message \in ExpectedEntriesTexts => i = 1
            /\ result.errors[i].message \in TooManyMessages =>
                  \A j \in DOMAIN result.errors :
                      j > i => result.errors[j].message \notin SlotMessages

C17_Witness ==
    /\ pc = "done"
    /\ Len(result.errors) >= 3
    /\ result.errors[1].message \in ExpectedEntriesTexts
    /\ result.errors[2].message \in SlotMessages
    /\ result.errors[Len(result.errors)].message \in TooManyMessages

----------------------------------------------------------------------------
(* C18 *)

\* the 'Too many entries' messages about one type
TooManyTextsOf(t) ==
    {TooManyTexts[t][l][c] : l \in 0..(MaxLimit + 1), c \in 0..(MaxItems + 1)}

\* in the returned errors every error with a message of `first` comes before
\* every error with a message of `second`
Precedes(first, second) ==
    \A i, j \in DOMAIN result.errors :
        (result.errors[i].message \in first /\ result.errors[j].message \in second)
            => i < j

\* C18 as stated: the per-slot errors come in the order in which the slot
\* names are declared in config.positions and the type-limit errors in the
\* order in which the type ids are declared in typeLimits, whatever the names
\* are, integer-like names included.
C18_Original ==
    pc = "done" =>
        /\ \A a, b \in DOMAIN config.positions :
              a < b => Precedes(SlotTexts(config.positions[a]),
                                SlotTexts(config.positions[b]))
        /\ LET declared == config.limits.typeLimits.entries
           IN \A a, b \in DOMAIN declared :
                 a < b => Precedes(TooManyTextsOf(declared[a].key),
                                   TooManyTextsOf(declared[b].key))

----------------------------------------------------------------------------
(* C19 *)

\* C19 as stated: a slot whose index is within items is not reported as
\* 'Missing entry', whatever items holds at that index, a null placeholder
\* included.
C19_Original ==
    pc = "done" =>
        \A slot \in Slots :
            InBounds(slot) => MissingText(slot.index, slot.key) \notin ResultMessages

\* C19: a slot is reported as 'Missing entry' only when items has nothing at
\* its index: the index is out of bounds, or the item there is a null
\* placeholder.  A slot whose index holds an object is never reported as
\* 'Missing entry'.
C19_MissingOnlyWhenAbsent ==
    pc = "done" =>
        \A slot \in Slots :
            MissingText(slot.index, slot.key) \in ResultMessages =>
                (~InBounds(slot) \/ ~IsPresent(ItemOf(slot)))

\* an object without a content type sits at a slot's index and is not
\* reported as missing, while a null placeholder at another slot's index is
C19_Witness ==
    /\ pc = "done"
    /\ \E slot \in Slots :
          /\ InBounds(slot) /\ ItemOf(slot) = MalformedEntry
          /\ CouldNotText(slot.index, slot.key) \in ResultMessages
          /\ MissingText(slot.index, slot.key) \notin ResultMessages
    /\ \E slot \in Slots :
          /\ InBounds(slot) /\ ItemOf(slot) = NullItem
          /\ MissingText(slot.index, slot.key) \in ResultMessages

----------------------------------------------------------------------------
(* C12 *)

\* the content types of the items of the component's latest validation
ValidatedTypes == [i \in DOMAIN lastValidated.items |-> lastValidated.items[i].id]

ValidatedMessages ==
    {lastValidated.result.errors[i].message : i \in DOMAIN lastValidated.result.errors}

\* C12: with the bento-1-2 config, items of types [CardTypeA, CardTypeB,
\* CardTypeB] are valid with no errors; [CardTypeA, CardTypeA, CardTypeB] has
\* the 'Too many entries' error of CardTypeA; no items have 'Expected 3
\* entries, but found 0.' and 'Missing entry' for positions 0, 1 and 2; one
\* CardTypeA item has 'Expected 3 entries, but found 1.' and 'Missing entry'
\* for positions 1 and 2 and not for position 0.
C12_Bento12Scenarios ==
    (config = bento12Config /\ lastValidated.run # 0) =>
        /\ ValidatedTypes = <<"CardTypeA", "CardTypeB", "CardTypeB">> =>
              (lastValidated.result.isValid /\ lastValidated.result.errors = <<>>)
        /\ ValidatedTypes = <<"CardTypeA", "CardTypeA", "CardTypeB">> =>
              "Too many entries of type 'CardTypeA'. Expected maximum 1, but found 2."
                  \in ValidatedMessages
        /\ ValidatedTypes = <<>> =>
              {"Expected 3 entries, but found 0.",
               "Missing entry at position 0 (leftColumnFullHeightCard).",
               "Missing entry at position 1 (rightColumnTopCard).",
               "Missing entry at position 2 (rightColumnBottomCard)."}
                  \subseteq ValidatedMessages
        /\ ValidatedTypes = <<"CardTypeA">> =>
              /\ {"Expected 3 entries, but found 1.",
                   "Missing entry at position 1 (rightColumnTopCard).",
                   "Missing entry at position 2 (rightColumnBottomCard)."}
                      \subseteq ValidatedMessages
              /\ "Missing entry at position 0 (leftColumnFullHeightCard)."
                      \notin ValidatedMessages

C12_Witness ==
    /\ config = bento12Config
    /\ lastValidated.run = 2
    /\ ValidatedTypes = <<"CardTypeA", "CardTypeB", "CardTypeB">>
    /\ lastValidated.result.isValid
    /\ fieldErrors = <<>>

----------------------------------------------------------------------------
(* C13 *)

\* a fetch of some run in flight fails
SomeFetchFails == \E id \in RunIds, i \in LinkPlaces : FetchFails(id, i)

\* C13: when a fetch of a run fails, whichever link it is and whatever has
\* been fetched for the run before, the displayed errors become the single
\* error 'Error fetching linked entry details for validation.' and the step
\* makes no validateBentoLayout call.
C13_FetchFailureShown ==
    [][SomeFetchFails =>
          /\ fieldErrors' = <<[message |->
                                 "Error fetching linked entry details for validation."]>>
          /\ lastValidated' = lastValidated]_vars

\* the run of a value change to three links has failed
C13_Witness ==
    /\ fieldErrors = <<[message |->
                          "Error fetching linked entry details for validation."]>>
    /\ shownRun = 2
    /\ lastValidated.run # 2
    /\ Len(fieldValue.links) = 3
    /\ runs = {}

----------------------------------------------------------------------------
(* C16 *)

\* the field is an Array whose items are Links to Entries
ArrayOfEntryLinks ==
    sdkField.type = "Array" /\ sdkField.itemsType = "Link" /\ sdkField.linkType = "Entry"

\* C16: when the field is not an Array of Entry links, after every run the
\* displayed errors are the single error 'This validator is intended for
\* multiple entry reference fields.', no entry has been fetched and
\* validateBentoLayout has not been called.
C16_NotReferenceField ==
    (~ArrayOfEntryLinks /\ runCount > 0) =>
        /\ fieldErrors = <<[message |->
               "This validator is intended for multiple entry reference fields."]>>
        /\ runs = {}
        /\ lastRunFetches = 0
        /\ lastValidated.run = 0

C16_Witness ==
    /\ sdkField.type = "Array" /\ sdkField.linkType = "Asset"
    /\ runCount = 2
    /\ Len(fieldValue.links) = 3
    /\ fieldErrors = <<[message |->
           "This validator is intended for multiple entry reference fields."]>>

----------------------------------------------------------------------------
(* C20 *)

\* a step in which a validation run starts
RunStarts == runCount' = runCount + 1

\* C20: when the field is an Array of Entry links and a run starts on a value
\* that is null, undefined or the empty list, the same step sets the
\* displayed errors to validateBentoLayout(config, []).errors and no fetch is
\* issued; with the bento-1-2 config these are 'Expected 3 entries, but found
\* 0.' and the three 'Missing entry' errors.
C20_EmptyValueSynchronous ==
    [][(RunStarts /\ ArrayOfEntryLinks
            /\ (fieldValue'.kind \in {"null", "undefined"} \/ fieldValue'.links = <<>>)) =>
          /\ fieldErrors' = validateBentoLayout(config, EmptyList).errors
          /\ runs' = runs
          /\ lastRunFetches' = 0
          /\ config = bento12Config =>
                fieldErrors' =
                    <<[message |-> "Expected 3 entries, but found 0."],
                      [message |-> "Missing entry at position 0 (leftColumnFullHeightCard)."],
                      [message |-> "Missing entry at position 1 (rightColumnTopCard)."],
                      [message |-> "Missing entry at position 2 (rightColumnBottomCard)."]>>]_vars

\* the value changed to undefined while the first run was still fetching
C20_Witness ==
    /\ ArrayOfEntryLinks
    /\ config = bento12Config
    /\ fieldValue.kind = "undefined"
    /\ runCount = 2 /\ shownRun = 2
    /\ runs # {}
    /\ lastRunFetches = 0
    /\ Len(fieldErrors) = 4

----------------------------------------------------------------------------
(* C15 *)

\* the entries of the space that the links of a value point to
EntriesOf(value) == [i \in DOMAIN value.links |-> createMockContentfulEntry[value.links[i]]]

\* what validateBentoLayout reports for the entries of a value
ErrorsOfValue(value) ==
    validateBentoLayout(config, [kind |-> "array", elems |-> EntriesOf(value)]).errors

\* the runs that have started and are no longer in flight
CompletedRuns == {id \in 1..runCount : \A run \in runs : run.id # id}

\* C15 as stated: the result of an older run never overwrites that of a
\* newer run, so the errors on display come from the newest completed run;
\* once every run has completed they are those of the most recent value
\* (or the fetch error of its run).
C15_Original ==
    (ArrayOfEntryLinks /\ phase = "mounted") =>
        /\ \A id \in CompletedRuns : shownRun >= id
        /\ runs = {} =>
              \/ fieldErrors = ErrorsOfValue(fieldValue)
              \/ fieldErrors = <<[message |->
                     "Error fetching linked entry details for validation."]>>

----------------------------------------------------------------------------
(* C14 *)

InFlight(k) == \E run \in runs : run.id = k

\* run k is the latest run and it is fetching or has just set the errors
LatestRunStarted(k) == runCount = k /\ (InFlight(k) \/ shownRun = k)

\* the errors on display are those of run k for the current value: what
\* validateBentoLayout reports for its entries or, when a fetch of the run
\* failed, the fetch error
LatestRunShown(k) ==
    /\ shownRun = k
    /\ \/ fieldErrors = ErrorsOfValue(fieldValue)
       \/ fieldErrors = <<[message |->
              "Error fetching linked entry details for validation."]>>

\* a value-change notification starts a run on the new value
ChangeStartsRun ==
    changes' = changes + 1 =>
        /\ runCount' = runCount + 1
        /\ \/ shownRun' = runCount'
           \/ \E run \in runs' : /\ run.id = runCount'
                                 /\ run.links = fieldValue'.links
                                 /\ run \notin runs

\* C14 as stated, for any field: every value change starts a run on the new
\* value, and unless a further change arrives the errors on display
\* eventually are those that validateBentoLayout reports for the entries of
\* the new value (or the fetch error, when a fetch of the run fails).
C14_Original ==
    /\ [][ChangeStartsRun]_vars
    /\ \A k \in RunIds :
          LatestRunStarted(k) ~> (runCount > k \/ LatestRunShown(k))

\* C14: the same for a field that is an Array of Entry links.
C14_RevalidatesOnChange ==
    /\ [][ChangeStartsRun]_vars
    /\ \A k \in RunIds :
          (ArrayOfEntryLinks /\ LatestRunStarted(k))
              ~> (runCount > k \/ LatestRunShown(k))

\* after a value change to three links the errors of the first run have
\* been replaced by the success of the second
C14_Witness ==
    /\ ArrayOfEntryLinks
    /\ config = bento12Config
    /\ changes = 1
    /\ fieldValue.links = <<"entryA1", "entryB1", "entryB2">>
    /\ lastValidated.run = 2
    /\ shownRun = 2
    /\ fieldErrors = <<>>

----------------------------------------------------------------------------
(* C21 *)

\* C21: when a run that was fetching validates, the items it passes to
\* validateBentoLayout are the entries of its links, one per link and in the
\* order of the links, whatever the order in which the fetches resolved.
C21_ItemsInLinkOrder ==
    [][\A run \in runs :
          lastValidated'.run = run.id =>
              /\ Len(lastValidated'.items) = Len(run.links)
              /\ \A k \in DOMAIN run.links :
                    lastValidated'.items[k] = createMockContentfulEntry[run.links[k]]]_vars

\* a run on a CardTypeA link followed by a CardTypeB link has validated,
\* while the run of a later value is still fetching
C21_Witness ==
    /\ lastValidated.run = 1
    /\ Len(lastValidated.items) = 2
    /\ lastValidated.items[1].id = "CardTypeA"
    /\ lastValidated.items[2].id = "CardTypeB"
    /\ runs # {}

----------------------------------------------------------------------------
(* C22 *)

\* the item at the slot's index is present, has a resolvable content type
\* and that type is one of the slot's allowed types
SlotSatisfied(slot) ==
    /\ InBounds(slot)
    /\ IsPresent(ItemOf(slot))
    /\ Resolves(ItemOf(slot))
    /\ \E k \in DOMAIN slot.allowedTypes : slot.allowedTypes[k] = ItemOf(slot).id

\* typeLimits is absent, or no type has more items than its limit
WithinTypeLimits ==
    LET typeLimits == config.limits.typeLimits
    IN typeLimits.present =>
          \A k \in DOMAIN typeLimits.entries :
              TypeCount(typeLimits.entries[k].key) <= typeLimits.entries[k].limit

\* C22: outside the all-zero early return the result is valid exactly when
\* the number of items is totalEntries, every declared slot is satisfied by
\* the item at its index, and the type limits are kept.  Nothing else of the
\* items enters: an item that no slot refers to counts only in the number of
\* items and in the tally of its type.
C22_ValidExactlyWhen ==
    (pc = "done" /\ ~AllZeroCase) =>
        (result.isValid <=>
            /\ ItemCount = ExpectedTotal
            /\ \A slot \in Slots : SlotSatisfied(slot)
            /\ WithinTypeLimits)

\* a valid layout whose second item no slot refers to
C22_Witness ==
    /\ pc = "done"
    /\ result.isValid
    /\ ItemCount = 2
    /\ Slots # {}
    /\ \A slot \in Slots : slot.index = 0
    /\ config.limits.typeLimits.present
    /\ config.limits.typeLimits.entries # <<>>

----------------------------------------------------------------------------
(* C23 *)

\* C23 as stated: once mounted, the success text is displayed only when a
\* validation run of the current field value has completed with zero errors:
\* some run has completed, the run of the current value is not fetching any
\* more, and validateBentoLayout reports no error for the entries of the
\* current value.
C23_Original ==
    (phase = "mounted" /\ SuccessDisplayed) =>
        /\ CompletedRuns # {}
        /\ ~InFlight(runCount)
        /\ ErrorsOfValue(fieldValue) = <<>>

====
